---- MODULE Spec2Model ----
(***************************************************************************)
(* The Streamlit workflow of src/app.py: password gate, sidebar (API key   *)
(* and Reset), Step 1 planning, Step 2 research, Step 3 analysis.  One     *)
(* action is one user interaction, i.e. one top-to-bottom run of the       *)
(* script together with the rerun it asks for.                             *)
(*                                                                         *)
(* Python values: None is the empty tuple and a present value v is <<v>>,  *)
(* so that an optional field is always a tuple.  A text (str) that the     *)
(* code measures, strips, joins or matches is a sequence of one-character  *)
(* strings; a text the code only compares or embeds (password, target,     *)
(* fault message) is a TLA+ string.                                        *)
(***************************************************************************)
EXTENDS Integers, Sequences, FiniteSets, TLC

None == <<>>
Some(v) == <<v>>

\* ------------------------------------------------------------------ bounds
\* the clock readings int(time.time()) range over 0..MaxTime
MaxTime == 1
\* the artifact list is allowed to grow to this length
MaxArtifacts == 1

\* ---------------------------------------------------------------- constants
\* len(text) > 100
MinLen == 100

APP_PASSWORD == "admin123"
MODEL_NAME == "gemini-2.0-flash-exp"

\* --------------------------------------------------------------- str helpers
IsSpace(c) == c \in {" ", "\n"}
IsDigit(c) == c \in {"0", "1", "2", "3", "4", "5", "6", "7", "8", "9"}
IsSep(c) == c \in {".", ")", "-"}

Rep(c, n) == [i \in 1..n |-> c]

RECURSIVE lstrip(_)
lstrip(s) == IF s # <<>> /\ IsSpace(Head(s)) THEN lstrip(Tail(s)) ELSE s

RECURSIVE rstrip(_)
rstrip(s) ==
  IF s # <<>> /\ IsSpace(s[Len(s)]) THEN rstrip(SubSeq(s, 1, Len(s) - 1)) ELSE s

\* str.strip()
strip(s) == rstrip(lstrip(s))

\* sep.join(parts)
RECURSIVE join(_, _)
join(sep, parts) ==
  IF parts = <<>> THEN <<>>
  ELSE IF Len(parts) = 1 THEN parts[1]
  ELSE parts[1] \o sep \o join(sep, Tail(parts))

StartsWith(s, i, pat) ==
  /\ i + Len(pat) - 1 <= Len(s)
  /\ SubSeq(s, i, i + Len(pat) - 1) = pat

\* s.replace(pat, ""): leftmost non-overlapping occurrences removed
RECURSIVE RemoveFrom(_, _, _)
RemoveFrom(s, i, pat) ==
  IF i > Len(s) THEN <<>>
  ELSE IF StartsWith(s, i, pat) THEN RemoveFrom(s, i + Len(pat), pat)
  ELSE <<s[i]>> \o RemoveFrom(s, i + 1, pat)

remove(s, pat) == RemoveFrom(s, 1, pat)

\* ------------------------------------------------------------- parse_tasks
\* The regex ^(\d+)[\.\)\-]\s*(.+?)(?=\n\d+[\.\)\-]|\n\n|\Z) under
\* MULTILINE | DOTALL, scanned by finditer.

\* first index after the maximal run of digits starting at i
RECURSIVE DigitsEnd(_, _)
DigitsEnd(text, i) ==
  IF i <= Len(text) /\ IsDigit(text[i]) THEN DigitsEnd(text, i + 1) ELSE i

\* first index after the maximal run of whitespace starting at i
RECURSIVE SpaceEnd(_, _)
SpaceEnd(text, i) ==
  IF i <= Len(text) /\ IsSpace(text[i]) THEN SpaceEnd(text, i + 1) ELSE i

\* \d+[\.\)\-] matches at i
NumberedAt(text, i) ==
  /\ i <= Len(text)
  /\ IsDigit(text[i])
  /\ DigitsEnd(text, i) <= Len(text)
  /\ IsSep(text[DigitsEnd(text, i)])

\* the lookahead (?=\n\d+[\.\)\-]|\n\n|\Z) holds at q
Lookahead(text, q) ==
  \/ q > Len(text)
  \/ /\ text[q] = "\n"
     /\ \/ NumberedAt(text, q + 1)
        \/ q + 1 <= Len(text) /\ text[q + 1] = "\n"

\* (.+?) is lazy: the first index q >= from at which the lookahead holds
RECURSIVE LazyEnd(_, _)
LazyEnd(text, from) ==
  IF Lookahead(text, from) THEN from ELSE LazyEnd(text, from + 1)

\* ^ under MULTILINE
LineStart(text, i) == i = 1 \/ text[i - 1] = "\n"

\* One match attempt at i: None, or the groups and the end of the match.
\* \s* is greedy and gives one character back to (.+?) only when the
\* whitespace runs to the end of the text.
MatchAt(text, i) ==
  IF ~(LineStart(text, i) /\ NumberedAt(text, i)) THEN None
  ELSE LET e == DigitsEnd(text, i)
           w == SpaceEnd(text, e + 1)
           p == IF w <= Len(text) THEN w ELSE w - 1
       IN IF p <= e THEN None
          ELSE LET q == LazyEnd(text, p + 1)
               IN Some([num |-> SubSeq(text, i, e - 1),
                        text |-> strip(SubSeq(text, p, q - 1)),
                        end |-> q])

RECURSIVE ScanFrom(_, _)
ScanFrom(text, pos) ==
  IF pos > Len(text) THEN <<>>
  ELSE LET m == MatchAt(text, pos)
       IN IF m = None THEN ScanFrom(text, pos + 1)
          ELSE <<[num |-> m[1].num, text |-> m[1].text]>>
               \o ScanFrom(text, m[1].end)

parse_tasks(text) == ScanFrom(text, 1)

\* ------------------------------------------------ extract_text_from_response
\* A response object is [id, text, candidates, repr]: text is None or
\* Some(str); candidates is a sequence of [content], content None or
\* Some([parts]), parts a sequence of [text]; repr is str(response).  An
\* attribute that is missing and one that is None fail the code's
\* `hasattr(x, a) and x.a` alike, so both are None here.
Truthy(opt) == opt # None /\ opt[1] # <<>>

RECURSIVE PartTexts(_)
PartTexts(parts) ==
  IF parts = <<>> THEN <<>>
  ELSE (IF Truthy(parts[1].text) THEN <<parts[1].text[1]>> ELSE <<>>)
       \o PartTexts(Tail(parts))

\* the text_parts of a candidate, <<>> when the candidate has none
CandidateTexts(candidate) ==
  IF Truthy(candidate.content) THEN PartTexts(candidate.content[1].parts)
  ELSE <<>>

\* the loop over response.candidates: the first candidate with text parts
RECURSIVE FirstCandidateText(_)
FirstCandidateText(candidates) ==
  IF candidates = <<>> THEN None
  ELSE IF CandidateTexts(candidates[1]) # <<>>
       THEN Some(strip(join(<<"\n">>, CandidateTexts(candidates[1]))))
  ELSE FirstCandidateText(Tail(candidates))

extract_text_from_response(response) ==
  IF response = None THEN <<>>
  ELSE LET r == response[1]
       IN IF Truthy(r.text) THEN strip(r.text[1])
          ELSE IF FirstCandidateText(r.candidates) # None
               THEN FirstCandidateText(r.candidates)[1]
          ELSE strip(r.repr)

\* ------------------------------------------------------------ safe_api_call
\* The external call either raises a fault with message msg = str(e) or
\* returns a response object.  safe_api_call turns that into the pair
\* (response, error).
safe_api_call(outcome) ==
  IF outcome.raised
  THEN [response |-> None, error |-> Some(outcome.msg)]
  ELSE [response |-> Some(outcome.result), error |-> None]

\* `if error:` : None and "" are both falsy
ErrorSet(error) == error # None /\ error[1] # ""

\* ------------------------------------------------------------ session state
\* The values of the widgets (password, API key, target, checkboxes) are the
\* inputs of a run: each action draws them.
VARIABLES
  session_state,  \* st.session_state: the keys of DEFAULT_STATE
  files,          \* the outputs/ directory: <<filename, content>> pairs
  now,            \* the latest reading of int(time.time())
  event,          \* the last interaction: its inputs and what the calls did
  calls,          \* the generate_content requests issued in the last run
  ui,             \* st.error / st.warning / st.success shown by the last run
  provenance      \* history, not program state: the target the stored plan
                  \* was asked for, and the memo the last entry of artifacts
                  \* was made from

vars == <<session_state, files, now, event, calls, ui, provenance>>

DEFAULT_STATE ==
  [plan_id |-> None, tasks |-> None, research_text |-> None,
   final_memo |-> None, auth |-> None, step2_status |-> None,
   step3_status |-> None, artifacts |-> <<>>]

\* `if not st.session_state.auth`
Authed(s) == s.auth # None

PastGatesKeyOnly(api_key) == api_key

\* lines 37 and 72: the run goes past the password gate and, when api_key
\* (line 51) is not empty, past the API key gate
PastGates(api_key) == Authed(session_state) /\ api_key

\* line 185: `if st.session_state.tasks`
Step2Open(s) == Truthy(s.tasks)

\* line 262: `if st.session_state.research_text`
Step3Open(s) == Truthy(s.research_text)

\* ------------------------------------------------------------------ inputs
Passwords == {"admin123", "letmein", ""}
Targets == {"", "acme"}
FaultMsgs == {"", "quota exceeded"}

Handle(n) == <<"interaction_", n>>
Repr == <<"[", "]">>

TextResponse(id, t) ==
  [id |-> Handle(id), text |-> Some(t), candidates |-> <<>>, repr |-> Repr]

PartsResponse(id, texts) ==
  [id |-> Handle(id), text |-> None,
   candidates |->
     <<[content |-> None],
       [content |-> Some([parts |-> [i \in 1..Len(texts) |-> [text |-> Some(texts[i])]]])]>>,
   repr |-> Repr]

\* a plan of two tasks, a plan of one task numbered 7, and prose
PlanResponses ==
  { TextResponse(1, <<"1", ".", " ", "a", "\n", "2", ")", "b", " ">>),
    PartsResponse(2, << <<"7", "-", " ", "b">> >>),
    TextResponse(3, <<"a", "b">>) }

\* MinLen + 1 characters once joined, and MinLen characters once stripped
ResearchResponses ==
  { PartsResponse(1, <<Rep("b", MinLen \div 2), Rep("b", MinLen \div 2)>>),
    TextResponse(2, <<" ">> \o Rep("a", MinLen) \o <<"\n">>) }

AnalysisResponses ==
  { TextResponse(1, Rep("m", MinLen + 1)),
    TextResponse(2, Rep("n", MinLen)) }

\* another memo of MinLen + 1 characters, for sessions that get two memos
SecondMemo == TextResponse(3, Rep("k", MinLen + 1))

\* "~" stands for the backquote, which a TLA+ string cannot hold
FENCE == <<"~", "~", "~">>
FENCE_HTML == FENCE \o <<"h", "t", "m", "l">>

HtmlResponses ==
  { TextResponse(1, FENCE_HTML \o <<"\n", "h", "\n">> \o FENCE) }

Outcomes(responses) ==
  {[raised |-> TRUE, msg |-> m] : m \in FaultMsgs}
  \cup {[raised |-> FALSE, result |-> r] : r \in responses}

PlanOutcomes == Outcomes(PlanResponses)
ResearchOutcomes == Outcomes(ResearchResponses)
AnalysisOutcomes == Outcomes(AnalysisResponses)
TwoMemoOutcomes == Outcomes(AnalysisResponses \cup {SecondMemo})
HtmlOutcomes == Outcomes(HtmlResponses)

\* ---------------------------------------------------------------- messages
Error(text, detail) == [kind |-> "error", text |-> text, detail |-> detail]
Warning(text) == [kind |-> "warning", text |-> text]

CreateInteraction(contents) ==
  [agent |-> "deep-research", input |-> contents, background |-> TRUE]

\* client.models.generate_content(model=..., contents=...)
GenerateContent(contents) == [model |-> MODEL_NAME, contents |-> contents]

\* ------------------------------------------------------------------ widgets
\* key=f"task_check_{task['num']}_{idx}"
CheckKey(task, idx) == <<task.num, idx>>

\* the checkbox keys a run renders for the stored tasks
CheckKeys(tasks) ==
  IF Truthy(tasks)
  THEN {CheckKey(tasks[1][i], i - 1) : i \in 1..Len(tasks[1])}
  ELSE {}

\* `checked`: value=True unless the user has cleared the box (off)
Checked(task, idx, off) == CheckKey(task, idx) \notin off

DecimalDigits == <<"0", "1", "2", "3", "4", "5", "6", "7", "8", "9">>

FormatTaskNoDot(task, idx) == task.num \o <<" ">> \o task.text

FormatTaskRenumbered(task, idx) ==
  <<DecimalDigits[idx + 2]>> \o <<".", " ">> \o task.text

\* f"{task['num']}. {task['text']}"
FormatTask(task, idx) == task.num \o <<".", " ">> \o task.text

\* lines 190-202: the loop that builds selected_tasks
RECURSIVE SelectedFrom(_, _, _)
SelectedFrom(ts, idx, off) ==
  IF idx >= Len(ts) THEN <<>>
  ELSE (IF Checked(ts[idx + 1], idx, off)
        THEN <<FormatTask(ts[idx + 1], idx)>> ELSE <<>>)
       \o SelectedFrom(ts, idx + 1, off)

selected_tasks(off) == SelectedFrom(session_state.tasks[1], 0, off)

ResearchNeverDisabled(selected) == FALSE

\* `disabled=len(selected_tasks) == 0`
ResearchDisabled(selected) == Len(selected) = 0

LongEnoughInclusive(text) == text # <<>> /\ Len(text) >= MinLen

\* `text and len(text) > 100`
LongEnough(text) == text # <<>> /\ Len(text) > MinLen

\* ----------------------------------------------------------------- prompts
PlanPrompt(tgt) == [template |-> "plan", target |-> tgt]

ResearchPrompt(tgt, selected) ==
  [template |-> "research", target |-> tgt, tasks |-> join(<<"\n">>, selected)]

AnalysisPrompt(research, include_financials, include_contacts) ==
  [template |-> "analysis", research |-> research,
   financials |-> include_financials, contacts |-> include_contacts]

HtmlPrompt(memo) == [template |-> "html", memo |-> memo]

\* -------------------------------------------------------------------- Init
NoProvenance == [plan_target |-> None, html_memo |-> None]

Init ==
  /\ session_state = DEFAULT_STATE
  /\ files = {}
  /\ now = 0
  /\ event = [op |-> "open"]
  /\ calls = <<>>
  /\ ui = <<>>
  /\ provenance = NoProvenance

\* ------------------------------------------------------------ authentication
PasswordOkAnyText(pw) == pw # ""

\* line 41
PasswordOk(pw) == pw = APP_PASSWORD

\* lines 37-46
Unlock(pw) ==
  /\ ~Authed(session_state)
  /\ IF PasswordOk(pw)
     THEN /\ session_state' = [session_state EXCEPT !.auth = Some(TRUE)]
          /\ ui' = <<>>
     ELSE /\ session_state' = session_state
          /\ ui' = <<Error("Incorrect password", "")>>
  /\ event' = [op |-> "unlock", pw |-> pw]
  /\ calls' = <<>>
  /\ UNCHANGED <<files, now, provenance>>

\* ------------------------------------------------------------------ sidebar
ResetStateAll(s) == DEFAULT_STATE

\* lines 55-57 and, in the rerun, lines 32-34
ResetState(s) ==
  [k \in DOMAIN DEFAULT_STATE |-> IF k = "auth" THEN s[k] ELSE DEFAULT_STATE[k]]

\* lines 54-58
Reset ==
  /\ Authed(session_state)
  /\ session_state' = ResetState(session_state)
  /\ event' = [op |-> "reset"]
  /\ calls' = <<>>
  /\ ui' = <<>>
  /\ provenance' = NoProvenance
  /\ UNCHANGED <<files, now>>

\* the readings int(time.time()) can give next: the clock does not go back
Clock == now..MaxTime

\* ---------------------------------------------------------- Step 1: planning
PlanIdFromResponse(response, t) == response.id

\* line 171: f"plan_{int(time.time())}"
PlanId(response, t) == <<"plan_", t>>

PlanSuccessKeepsDownstream(s, response, t) ==
  [s EXCEPT !.tasks = Some(parse_tasks(extract_text_from_response(Some(response)))),
            !.plan_id = Some(PlanId(response, t))]

\* lines 169-173
PlanSuccess(s, response, t) ==
  [s EXCEPT !.tasks = Some(parse_tasks(extract_text_from_response(Some(response)))),
            !.plan_id = Some(PlanId(response, t)),
            !.research_text = None,
            !.final_memo = None]

PlanStateDropsPlanOnFault(s, r, t) ==
  IF ErrorSet(r.error) THEN [s EXCEPT !.tasks = None, !.plan_id = None]
  ELSE IF r.response # None THEN PlanSuccess(s, r.response[1], t)
  ELSE s

\* lines 166-175: the session state after the planning call
PlanState(s, r, t) ==
  IF ErrorSet(r.error) THEN s
  ELSE IF r.response # None THEN PlanSuccess(s, r.response[1], t)
  ELSE s

\* lines 166-168: what the run shows (the rerun clears the success message)
PlanUi(r) ==
  IF ErrorSet(r.error) THEN <<Error("Planning failed", r.error[1])>> ELSE <<>>

\* line 171 is reached: the clock is read
PlanReadsClock(r) == ~ErrorSet(r.error) /\ r.response # None

\* lines 148-175: t is the reading of the clock, if it is read
GeneratePlan(api_key, tgt, outcome, t) ==
  /\ PastGates(api_key)
  /\ tgt # ""
  /\ LET r == safe_api_call(outcome)
     IN /\ session_state' = PlanState(session_state, r, t)
        /\ ui' = PlanUi(r)
        /\ now' = IF PlanReadsClock(r) THEN t ELSE now
        \* a reading the run does not take is drawn one way only
        /\ ~PlanReadsClock(r) => t = now
        /\ provenance' = IF PlanReadsClock(r)
                         THEN [provenance EXCEPT !.plan_target = Some(tgt)]
                         ELSE provenance
  /\ calls' = <<GenerateContent(PlanPrompt(tgt))>>
  /\ event' = [op |-> "plan", target |-> tgt, outcome |-> outcome]
  /\ UNCHANGED files

\* --------------------------------------------------------- Step 2: research
\* lines 237-239
ResearchSuccess(s, text) ==
  [s EXCEPT !.research_text = Some(text),
            !.step2_status = Some("complete"),
            !.final_memo = None]

\* lines 230-244: the session state after the research call
ResearchState(s, r) ==
  IF ErrorSet(r.error) THEN [s EXCEPT !.step2_status = Some("error")]
  ELSE IF r.response # None
  THEN LET text == extract_text_from_response(r.response)
       IN IF LongEnough(text) THEN ResearchSuccess(s, text)
          ELSE [s EXCEPT !.step2_status = Some("incomplete")]
  ELSE s

\* lines 230-243: what the run shows
ResearchUi(r) ==
  IF ErrorSet(r.error) THEN <<Error("Research failed", r.error[1])>>
  ELSE IF r.response # None
  THEN IF LongEnough(extract_text_from_response(r.response)) THEN <<>>
       ELSE <<Warning("Research returned minimal results. Try adjusting your tasks.")>>
  ELSE <<>>

\* lines 185-249: off is the set of checkboxes the user has cleared
StartResearch(api_key, tgt, off, outcome) ==
  /\ PastGates(api_key)
  /\ Step2Open(session_state)
  /\ off \subseteq CheckKeys(session_state.tasks)
  /\ ~ResearchDisabled(selected_tasks(off))
  /\ LET r == safe_api_call(outcome)
     IN /\ session_state' = ResearchState(session_state, r)
        /\ ui' = ResearchUi(r)
  /\ calls' = <<GenerateContent(ResearchPrompt(tgt, selected_tasks(off)))>>
  /\ event' = [op |-> "research", target |-> tgt, off |-> off, outcome |-> outcome]
  /\ UNCHANGED <<files, now, provenance>>

\* --------------------------------------------------------- Step 3: analysis
\* line 359: Path("outputs") / f"memo_{int(time.time())}.html"
HtmlFile(t) == <<"outputs/memo_", t, ".html">>

\* line 356
CleanHtml(html_text) == strip(remove(remove(html_text, FENCE_HTML), FENCE))

\* line 353: `if html_response and not html_error`
HtmlOk(h) == h.response # None /\ ~ErrorSet(h.error)

\* line 360: write_text replaces a file of the same name
WriteText(fs, name, content) ==
  {f \in fs : f[1] # name} \cup {<<name, content>>}

MemoSuccessBlockedByHtml(s, memo_text, format_html, h, t) ==
  IF format_html /\ ~HtmlOk(h) THEN [s EXCEPT !.step3_status = Some("error")]
  ELSE [s EXCEPT !.artifacts = IF format_html THEN Append(@, HtmlFile(t)) ELSE @,
                 !.final_memo = Some(memo_text),
                 !.step3_status = Some("complete")]

\* lines 338-371: the session state once the memo is long enough
MemoSuccess(s, memo_text, format_html, h, t) ==
  [s EXCEPT !.artifacts = IF format_html /\ HtmlOk(h)
                          THEN Append(@, HtmlFile(t)) ELSE @,
            !.final_memo = Some(memo_text),
            !.step3_status = Some("complete")]

\* lines 332-376: the session state after the analysis call
MemoState(s, r, format_html, h, t) ==
  IF ErrorSet(r.error) THEN [s EXCEPT !.step3_status = Some("error")]
  ELSE IF r.response # None
  THEN LET memo_text == extract_text_from_response(r.response)
       IN IF LongEnough(memo_text) THEN MemoSuccess(s, memo_text, format_html, h, t)
          ELSE [s EXCEPT !.step3_status = Some("incomplete")]
  ELSE s

\* lines 332-375: what the run shows
MemoUi(r) ==
  IF ErrorSet(r.error) THEN <<Error("Analysis failed", r.error[1])>>
  ELSE IF r.response # None
  THEN IF LongEnough(extract_text_from_response(r.response)) THEN <<>>
       ELSE <<Warning("Analysis returned minimal results.")>>
  ELSE <<>>

\* line 340: the conversion call is reached
HtmlReached(r, format_html) ==
  /\ format_html
  /\ ~ErrorSet(r.error)
  /\ r.response # None
  /\ LongEnough(extract_text_from_response(r.response))

\* lines 262-381: t is the reading of the clock, if it is read (line 359)
GenerateMemo(api_key, include_financials, include_contacts, format_html, outcome, html_outcome, t) ==
  /\ PastGates(api_key)
  /\ Step3Open(session_state)
  \* the model stops the artifact list at MaxArtifacts entries
  /\ format_html => Len(session_state.artifacts) < MaxArtifacts
  /\ LET r == safe_api_call(outcome)
         h == safe_api_call(html_outcome)
         reached == HtmlReached(r, format_html)
         memo_text == extract_text_from_response(r.response)
     IN /\ session_state' = MemoState(session_state, r, format_html, h, t)
        /\ ui' = MemoUi(r)
        /\ now' = IF reached /\ HtmlOk(h) THEN t ELSE now
        \* inputs the run does not use are drawn one way only
        /\ ~(reached /\ HtmlOk(h)) => t = now
        /\ ~reached => html_outcome = CHOOSE x \in HtmlOutcomes : TRUE
        /\ files' = IF reached /\ HtmlOk(h)
                    THEN WriteText(files, HtmlFile(t),
                                   CleanHtml(extract_text_from_response(h.response)))
                    ELSE files
        /\ provenance' = IF reached /\ HtmlOk(h)
                         THEN [provenance EXCEPT !.html_memo = Some(memo_text)]
                         ELSE provenance
        /\ calls' =
             <<GenerateContent(AnalysisPrompt(session_state.research_text[1],
                                              include_financials, include_contacts))>>
             \o (IF reached THEN <<GenerateContent(HtmlPrompt(memo_text))>> ELSE <<>>)
        /\ event' = [op |-> "memo", outcome |-> outcome, format_html |-> format_html,
                     html |-> IF reached THEN Some(html_outcome) ELSE None]

\* ------------------------------------------------------- the memo display
\* line 384: `if st.session_state.final_memo`
MemoDisplayed(s) == Truthy(s.final_memo)

\* line 400: st.session_state.artifacts[-1]
latest_artifact(s) == s.artifacts[Len(s.artifacts)]

\* lines 384-410: the "Download Report (HTML)" button is rendered
HtmlDownloadOffered(s, fs) ==
  /\ MemoDisplayed(s)
  /\ s.artifacts # <<>>
  /\ \E f \in fs : f[1] = latest_artifact(s)

\* -------------------------------------------------------------------- Next
\* The two "Include ..." boxes of Step 3 stay at their default, checked.
Next ==
  \/ \E pw \in Passwords : Unlock(pw)
  \/ Reset
  \/ \E k \in BOOLEAN, tgt \in Targets, o \in PlanOutcomes, t \in Clock :
       GeneratePlan(k, tgt, o, t)
  \/ \E k \in BOOLEAN, tgt \in Targets, off \in SUBSET CheckKeys(session_state.tasks),
          o \in ResearchOutcomes :
       StartResearch(k, tgt, off, o)
  \/ \E k \in BOOLEAN, f \in BOOLEAN, o \in AnalysisOutcomes, h \in HtmlOutcomes,
          t \in Clock :
       GenerateMemo(k, TRUE, TRUE, f, o, h, t)

Spec == Init /\ [][Next]_vars

\* The same application, the analysis call returning one of two memos.
TwoMemoNext ==
  \/ \E pw \in Passwords : Unlock(pw)
  \/ Reset
  \/ \E k \in BOOLEAN, tgt \in Targets, o \in PlanOutcomes, t \in Clock :
       GeneratePlan(k, tgt, o, t)
  \/ \E k \in BOOLEAN, tgt \in Targets, off \in SUBSET CheckKeys(session_state.tasks),
          o \in ResearchOutcomes :
       StartResearch(k, tgt, off, o)
  \/ \E k \in BOOLEAN, f \in BOOLEAN, o \in TwoMemoOutcomes, h \in HtmlOutcomes,
          t \in Clock :
       GenerateMemo(k, TRUE, TRUE, f, o, h, t)

TwoMemoSpec == Init /\ [][TwoMemoNext]_vars

\* ============================================== the helpers on their own
\* parse_tasks and extract_text_from_response applied to inputs of every
\* shape, not only those the three calls return.  event holds the input and
\* then the input with the result; the other variables stay as in Init.

\* the texts parsed: every text of at most MaxLen characters of Alphabet
MaxLen == 5
Alphabet == {"1", "2", ".", "a", " ", "\n"}

Texts == UNION {[1..n -> Alphabet] : n \in 0..MaxLen}

Example ==
  <<"1", ".", " ", "F", "i", "n", "d", " ", "f", "o", "u", "n", "d", "e", "r", "s", "\n">>
  \o <<"2", ".", " ", "A", "n", "a", "l", "y", "z", "e", " ", "m", "a", "r", "k", "e", "t", "\n">>
  \o <<"3", ".", " ", "C", "h", "e", "c", "k", " ", "f", "i", "n", "a", "n", "c", "i", "a", "l", "s">>

ExampleTasks ==
  <<[num |-> <<"1">>,
     text |-> <<"F", "i", "n", "d", " ", "f", "o", "u", "n", "d", "e", "r", "s">>],
    [num |-> <<"2">>,
     text |-> <<"A", "n", "a", "l", "y", "z", "e", " ", "m", "a", "r", "k", "e", "t">>],
    [num |-> <<"3">>,
     text |-> <<"C", "h", "e", "c", "k", " ", "f", "i", "n", "a", "n", "c", "i", "a", "l", "s">>]>>

\* a single paragraph, and a list numbered 12) and 7-
Paragraph == <<"a", " ", "p", "l", "a", "n", ".", " ", "n", "o", " ", "1", "\n", "l", "i", "s", "t">>
OtherSeps == <<"1", "2", ")", " ", "a", "\n", "7", "-", "b", "\n", "\n", "c">>

ParseInputs == Texts \cup {Example, Paragraph, OtherSeps}

\* A value that is truthy and is not a str (the list ["a"], the int 7): it
\* has no strip method and "\n".join does not accept it.
NotAStr == <<"<not a str>">>
IsStr(v) == v # NotAStr

TextFields ==
  {None, Some(<<>>), Some(<<" ", "a">>), Some(<<" ">>), Some(NotAStr)}

PartLists ==
  { <<>>,
    <<[text |-> None]>>,
    <<[text |-> Some(<<"a", " ">>)], [text |-> Some(<<>>)], [text |-> Some(<<" ", "b", " ">>)]>>,
    <<[text |-> Some(<<"c">>)], [text |-> Some(NotAStr)]>> }

Candidates ==
  {[content |-> None]} \cup {[content |-> Some([parts |-> ps])] : ps \in PartLists}

CandidateLists == UNION {[1..n -> Candidates] : n \in 0..2}

\* str([]) and the str() of an object of no recognised shape
Reprs == {Repr, <<" ", "<", "o", ">", "\n">>}

Shapes ==
  [id : {Handle(0)}, text : TextFields, candidates : CandidateLists, repr : Reprs]

\* [] has neither text nor candidates; str([]) is "[]"
EmptySequence == [id |-> Handle(0), text |-> None, candidates |-> <<>>, repr |-> Repr]

ExtractInputs == {None} \cup {Some(r) : r \in Shapes}

\* line 104: response.text.strip() raises AttributeError when text is not a str
TextRaises(r) == Truthy(r.text) /\ ~IsStr(r.text[1])

\* line 117: "\n".join(text_parts) raises TypeError when a part's text is
\* not a str; the loop returns at the first candidate with text parts
RECURSIVE CandidatesRaise(_)
CandidatesRaise(candidates) ==
  IF candidates = <<>> THEN FALSE
  ELSE LET text_parts == CandidateTexts(candidates[1])
       IN IF text_parts # <<>>
          THEN \E i \in 1..Len(text_parts) : ~IsStr(text_parts[i])
          ELSE CandidatesRaise(Tail(candidates))

\* the call of extract_text_from_response raises instead of returning
ExtractRaises(response) ==
  /\ response # None
  /\ IF Truthy(response[1].text) THEN TextRaises(response[1])
     ELSE CandidatesRaise(response[1].candidates)

HelperInit ==
  /\ session_state = DEFAULT_STATE
  /\ files = {}
  /\ now = 0
  /\ calls = <<>>
  /\ ui = <<>>
  /\ provenance = NoProvenance
  /\ event \in {[op |-> "text", text |-> t] : t \in ParseInputs}
               \cup {[op |-> "response", response |-> r] : r \in ExtractInputs}

\* tasks = parse_tasks(text)
ParseTasks ==
  /\ event.op = "text"
  /\ event' = [op |-> "parse_tasks", text |-> event.text,
               tasks |-> parse_tasks(event.text)]
  /\ UNCHANGED <<session_state, files, now, calls, ui, provenance>>

\* text = extract_text_from_response(response)
ExtractText ==
  /\ event.op = "response"
  /\ event' = [op |-> "extract", response |-> event.response,
               raised |-> ExtractRaises(event.response),
               result |-> IF ExtractRaises(event.response) THEN <<>>
                          ELSE extract_text_from_response(event.response)]
  /\ UNCHANGED <<session_state, files, now, calls, ui, provenance>>

HelperNext == ParseTasks \/ ExtractText

HelperSpec == HelperInit /\ [][HelperNext]_vars

\* ================================================================== claims
S == session_state

StageOps == {"plan", "research", "memo"}

\* the external call of the last run raised a fault
Raised == event.op \in StageOps /\ event.outcome.raised

\* the text the last run extracted from the response it was given
ReturnedText == extract_text_from_response(Some(event.outcome.result))

\* C1: stages are reached only in order: a research run finds stored tasks,
\* an analysis run finds stored research, and in every state a stored memo
\* implies stored research and stored research implies a non-empty task list.
C1_StagesInOrder ==
  /\ Truthy(S.final_memo) => Truthy(S.research_text)
  /\ Truthy(S.research_text) => Truthy(S.tasks) /\ Len(S.tasks[1]) > 0
  /\ event.op = "research" => Truthy(S.tasks)
  /\ event.op = "memo" => Truthy(S.research_text)

C1_Witness ==
  /\ event.op = "memo"
  /\ Truthy(S.final_memo)
  /\ Truthy(S.research_text)
  /\ Len(S.tasks[1]) = 2

\* a matching submission is accepted in this state
MatchingUnlockWorks == ENABLED (Unlock(APP_PASSWORD) /\ Authed(session_state'))

\* C2: auth becomes true only by an Unlock whose password equals the
\* configured secret; an Unlock with another password changes nothing of the
\* session, the files or the clock; and there is no lockout: whenever the
\* session is unauthenticated a matching submission authenticates.
C2_AuthOnlyByPassword ==
  /\ [](~Authed(session_state) => MatchingUnlockWorks)
  /\ [][/\ (~Authed(session_state) /\ Authed(session_state'))
             => (event'.op = "unlock" /\ event'.pw = APP_PASSWORD)
        /\ (event'.op = "unlock" /\ event'.pw # APP_PASSWORD)
             => (/\ session_state' = session_state
                 /\ ~Authed(session_state')
                 /\ files' = files
                 /\ now' = now)]_vars

C2_Witness ==
  /\ event.op = "unlock"
  /\ event.pw # APP_PASSWORD
  /\ ~Authed(session_state)
  /\ MatchingUnlockWorks

\* the run that just ended can be started again with the same inputs
SameActionAgain ==
  /\ Authed(session_state')
  /\ event'.op = "research" =>
       /\ Step2Open(session_state')
       /\ ~ResearchDisabled(SelectedFrom(session_state'.tasks[1], 0, event'.off))
  /\ event'.op = "memo" => Step3Open(session_state')

\* C3: when the plan, research or analysis call raises, plan_id, tasks,
\* research_text and final_memo keep their values and the action can be
\* triggered again.
C3_NoAdvanceOnFault ==
  [][(event'.op \in StageOps /\ event'.outcome.raised)
       => (/\ session_state'.plan_id = session_state.plan_id
           /\ session_state'.tasks = session_state.tasks
           /\ session_state'.research_text = session_state.research_text
           /\ session_state'.final_memo = session_state.final_memo
           /\ SameActionAgain)]_vars

C3_Witness ==
  /\ event.op = "plan"
  /\ Raised
  /\ S.plan_id # None
  /\ Truthy(S.final_memo)

\* C4: every fault raised by the plan, research or analysis call is shown in
\* the same run as an error message carrying the fault's text, the empty
\* text included.
C4_FaultSurfaced ==
  Raised =>
    \E i \in 1..Len(ui) : ui[i].kind = "error" /\ ui[i].detail = event.outcome.msg

\* C5: a research or analysis call that returns text of at most MinLen
\* characters is a warning and not an error, and nothing advances:
\* research_text, final_memo and every other workflow field but the step
\* status keep their values.
C5_ShortResultNoAdvance ==
  [][(/\ event'.op \in {"research", "memo"}
      /\ ~event'.outcome.raised
      /\ Len(extract_text_from_response(Some(event'.outcome.result))) <= MinLen)
       => (/\ Len(ui') = 1
           /\ ui'[1].kind = "warning"
           /\ session_state'.plan_id = session_state.plan_id
           /\ session_state'.tasks = session_state.tasks
           /\ session_state'.research_text = session_state.research_text
           /\ session_state'.final_memo = session_state.final_memo
           /\ session_state'.artifacts = session_state.artifacts)]_vars

C5_Witness ==
  /\ event.op = "research"
  /\ ~Raised
  /\ Len(ReturnedText) = MinLen
  /\ Truthy(S.research_text)
  /\ Truthy(S.final_memo)

\* C6: Reset puts every workflow field back to its initial value and leaves
\* auth as it was, so that the session is authenticated, idle, and open to
\* Generate Plan only.
C6_ResetClears ==
  [][event'.op = "reset"
       => (/\ session_state' = [DEFAULT_STATE EXCEPT !.auth = session_state.auth]
           /\ Authed(session_state')
           /\ ~Step2Open(session_state')
           /\ ~Step3Open(session_state')
           /\ ~Truthy(session_state'.final_memo))]_vars

C6_Witness ==
  /\ event.op = "reset"
  /\ Authed(session_state)
  /\ S.tasks = None
  /\ S.artifacts = <<>>
  /\ files # {}

\* the tasks whose checkbox the research run found checked, by position
SelectedIdx == {i \in 1..Len(S.tasks[1]) : CheckKey(S.tasks[1][i], i - 1) \notin event.off}

\* C7: no research request is issued with an empty selection of tasks.
C7_ResearchNeedsSelection ==
  event.op = "research" => SelectedIdx # {}

C7_Witness ==
  /\ event.op = "research"
  /\ Cardinality(SelectedIdx) = 1
  /\ Len(S.tasks[1]) = 2

Min(set) == CHOOSE m \in set : \A n \in set : m <= n

\* "<num>. <text>" of the tasks at the positions idx, in plan order, one a line
RECURSIVE TaskLines(_, _)
TaskLines(ts, idx) ==
  IF idx = {} THEN <<>>
  ELSE LET m == Min(idx)
           line == ts[m].num \o <<".", " ">> \o ts[m].text
       IN IF idx = {m} THEN line
          ELSE line \o <<"\n">> \o TaskLines(ts, idx \ {m})

\* C8: the task text of the research request is the selected tasks and no
\* other, each as "<num>. <text>" with its own number, in plan order, joined
\* by newlines.
C8_TaskTextExact ==
  event.op = "research" =>
    calls[1].contents.tasks = TaskLines(S.tasks[1], SelectedIdx)

C8_Witness ==
  /\ event.op = "research"
  /\ calls[1].contents.tasks = <<"7", ".", " ", "b">>

\* C9 as stated: the research step polls the status of a remote job, so a
\* run that records research has fetched a status.
C9_ResearchPolls ==
  (event.op = "research" /\ ~Raised /\ S.step2_status = Some("complete"))
    => \E i \in 1..Len(calls) : "interaction_id" \in DOMAIN calls[i]

\* C9 amended: the research step issues one synchronous generate_content
\* request and fetches no status; the run ends with that call, and research
\* is recorded exactly when the call returns text longer than MinLen.
C9_ResearchIsOneCall ==
  [][event'.op = "research"
       => LET long == /\ ~event'.outcome.raised
                      /\ Len(extract_text_from_response(Some(event'.outcome.result)))
                           > MinLen
          IN /\ Len(calls') = 1
             /\ DOMAIN calls'[1] = {"model", "contents"}
             /\ calls'[1].contents.template = "research"
             /\ long => /\ session_state'.research_text =
                             Some(extract_text_from_response(Some(event'.outcome.result)))
                        /\ session_state'.step2_status = Some("complete")
             /\ ~long => /\ session_state'.research_text = session_state.research_text
                         /\ session_state'.step2_status # Some("complete")
                              \/ session_state'.step2_status = session_state.step2_status]_vars

C9_Witness ==
  /\ event.op = "research"
  /\ ~Raised
  /\ S.research_text = Some(ReturnedText)
  /\ Len(calls) = 1

\* C10 as stated: plan_id is the handle the planning call returned and a
\* research request carries it as its previous-interaction id.
C10_ChainedByHandle ==
  /\ (event.op = "plan" /\ ~Raised) => S.plan_id = Some(event.outcome.result.id)
  /\ event.op = "research" =>
       /\ "previous_interaction_id" \in DOMAIN calls[1]
       /\ Some(calls[1].previous_interaction_id) = S.plan_id

\* C10 amended: on a successful plan plan_id is "plan_" followed by the
\* clock reading, not a handle of the planning call, and a research request
\* carries the model name and the prompt only: no interaction id is sent.
C10_LocalPlanId ==
  /\ (event.op = "plan" /\ ~Raised) => S.plan_id = Some(<<"plan_", now>>)
  /\ S.plan_id # None => S.plan_id[1][1] = "plan_" /\ S.plan_id[1][2] \in 0..now
  /\ event.op = "research" =>
       /\ S.plan_id # None
       /\ DOMAIN calls[1] = {"model", "contents"}
       /\ DOMAIN calls[1].contents = {"template", "target", "tasks"}

C10_Witness ==
  /\ event.op = "research"
  /\ S.plan_id # None
  /\ S.plan_id[1][2] > 0

\* ------------------------------------------------------------------- C11
\* the starts of the numbered lines of a text: digits and then . ) or -
NumberedLines(text) ==
  {i \in 1..Len(text) : LineStart(text, i) /\ NumberedAt(text, i)}

RECURSIVE Ascending(_)
Ascending(set) ==
  IF set = {} THEN <<>>
  ELSE LET m == CHOOSE x \in set : \A y \in set : x <= y
       IN <<m>> \o Ascending(set \ {m})

\* the number of the numbered line that starts at i
LineNum(text, i) == SubSeq(text, i, DigitsEnd(text, i) - 1)

\* what follows the number and its separator, up to the next numbered line,
\* a blank line or the end of the text
LineContent(text, i) ==
  LET from == DigitsEnd(text, i) + 1
  IN SubSeq(text, from, LazyEnd(text, from) - 1)

\* C11: parse_tasks returns one task per numbered line, in order of
\* appearance, the number kept verbatim and the stripped content as text;
\* a text with no numbered line gives no task; the three-line example gives
\* its three tasks.
C11_OnePerNumberedLine ==
  event.op = "parse_tasks" =>
    LET lines == Ascending(NumberedLines(event.text))
    IN /\ Len(event.tasks) = Len(lines)
       /\ \A k \in 1..Len(lines) :
            event.tasks[k] = [num |-> LineNum(event.text, lines[k]),
                              text |-> strip(LineContent(event.text, lines[k]))]
       /\ event.text = Example => event.tasks = ExampleTasks

\* ------------------------------------------------------------------- C12
\* the parsed tasks as "<num>. <text>" lines, joined by line breaks
Rejoined(tasks) ==
  join(<<"\n">>, [k \in 1..Len(tasks) |-> FormatTask(tasks[k], k - 1)])

\* C12: parsing is idempotent on its own output: the parsed tasks, joined as
\* "<num>. <text>" lines under their own numbers and parsed again, give the
\* same tasks in the same order.
C12_ParseIdempotent ==
  event.op = "parse_tasks" => parse_tasks(Rejoined(event.tasks)) = event.tasks

\* two tasks whose rejoined text is not the text they were parsed from
C12_Witness ==
  /\ event.op = "parse_tasks"
  /\ Len(event.tasks) = 2
  /\ Rejoined(event.tasks) # event.text

\* ------------------------------------------------------------------- C13
\* the part texts of the first candidate that has any, <<>> when none has
RECURSIVE FirstPartTexts(_)
FirstPartTexts(candidates) ==
  IF candidates = <<>> THEN <<>>
  ELSE IF CandidateTexts(candidates[1]) # <<>> THEN CandidateTexts(candidates[1])
  ELSE FirstPartTexts(Tail(candidates))

\* C13: extract_text_from_response never raises, whatever the shape of its
\* argument: it returns "" for None, the direct text when a non-empty direct
\* text is there, otherwise the part texts joined by line breaks, otherwise
\* str() of the object (each without its surrounding whitespace); [] and an
\* object of no recognised shape give a string.
C13_ExtractNeverRaises ==
  event.op = "extract" =>
    /\ ~event.raised
    /\ event.response = None => event.result = <<>>
    /\ event.response # None =>
         LET r == event.response[1]
             parts == FirstPartTexts(r.candidates)
         IN /\ Truthy(r.text) /\ IsStr(r.text[1]) => event.result = strip(r.text[1])
            /\ (~Truthy(r.text) /\ parts # <<>> /\ \A i \in 1..Len(parts) : IsStr(parts[i]))
                 => event.result = strip(join(<<"\n">>, parts))
            /\ ~Truthy(r.text) /\ parts = <<>> => event.result = strip(r.repr)

\* ------------------------------------------------------------------- C14
\* the run e was a planning run whose call returned a text with tasks in it
PlanGood(e) ==
  /\ e.op = "plan"
  /\ ~e.outcome.raised
  /\ parse_tasks(extract_text_from_response(Some(e.outcome.result))) # <<>>

\* the run e was a research run whose call returned a long enough text
ResearchGood(e) ==
  /\ e.op = "research"
  /\ ~e.outcome.raised
  /\ LongEnough(extract_text_from_response(Some(e.outcome.result)))

\* C14: a successful stage invalidates what is downstream of it, and a
\* failed or degenerate one leaves it untouched: a planning run that gives
\* tasks unsets research_text and final_memo, a research run that gives a
\* long enough text unsets final_memo, and a planning or research run that
\* faults or gives a degenerate result (no task, a short text) changes neither.
C14_DownstreamInvalidated ==
  [][/\ PlanGood(event') => S'.research_text = None /\ S'.final_memo = None
     /\ ResearchGood(event') => S'.final_memo = None
     /\ event'.op = "plan" /\ ~PlanGood(event') =>
          S'.research_text = S.research_text /\ S'.final_memo = S.final_memo
     /\ event'.op = "research" /\ ~ResearchGood(event') =>
          S'.research_text = S.research_text /\ S'.final_memo = S.final_memo]_vars

\* ------------------------------------------------------------------- C15
\* the run e was an analysis run whose call returned a long enough memo
MemoGood(e) ==
  /\ e.op = "memo"
  /\ ~e.outcome.raised
  /\ LongEnough(extract_text_from_response(Some(e.outcome.result)))

\* the run e reached the HTML conversion call and the call returned
HtmlConverted(e) == e.html # None /\ ~e.html[1].raised

\* C15: when the HTML report is asked for and the analysis call gives a
\* long enough memo, the stage completes whether or not the conversion call
\* succeeds: final_memo is the memo and step3_status is "complete"; the
\* artifact list gets one more entry when the conversion succeeds and stays
\* as it was when it fails.
C15_HtmlFailureDoesNotBlock ==
  [][MemoGood(event') /\ event'.format_html =>
       /\ S'.final_memo =
            Some(extract_text_from_response(Some(event'.outcome.result)))
       /\ S'.step3_status = Some("complete")
       /\ IF HtmlConverted(event')
          THEN /\ Len(S'.artifacts) = Len(S.artifacts) + 1
               /\ SubSeq(S'.artifacts, 1, Len(S.artifacts)) = S.artifacts
          ELSE S'.artifacts = S.artifacts]_vars

\* the conversion call faulted and the memo is stored all the same
C15_Witness ==
  /\ MemoGood(event)
  /\ event.format_html
  /\ event.html # None /\ event.html[1].raised
  /\ S.final_memo = Some(extract_text_from_response(Some(event.outcome.result)))
  /\ S.step3_status = Some("complete")
  /\ S.artifacts = <<>>

\* ------------------------------------------------------------------- C16
\* the names of the files in outputs/
FileNames(fs) == {f[1] : f \in fs}

\* C16: the timestamp in the name keeps artifact files apart: a run that
\* writes an HTML memo writes it under a name no file of outputs/ has yet,
\* so no write replaces an earlier artifact.
C16_NoOverwrite ==
  [][MemoGood(event') /\ HtmlConverted(event') =>
       HtmlFile(now') \notin FileNames(files)]_vars

\* ------------------------------------------------------------------- C17
\* plan_id, tasks, research_text and final_memo are all unset
WorkflowUnset(s) ==
  /\ s.plan_id = None
  /\ s.tasks = None
  /\ s.research_text = None
  /\ s.final_memo = None

\* C17: while the session is not authenticated only Unlock acts: Reset is
\* not available, a step is an unlock attempt that issues no call, writes no
\* file and changes at most auth, and the workflow fields stay unset; and
\* once auth is set no step, Reset included, unsets it.
C17_GateHolds ==
  [][/\ ~Authed(S) =>
          /\ ~ENABLED Reset
          /\ event'.op = "unlock"
          /\ calls' = <<>>
          /\ files' = files
          /\ S' \in {S, [S EXCEPT !.auth = Some(TRUE)]}
          /\ WorkflowUnset(S) /\ WorkflowUnset(S')
     /\ Authed(S) => Authed(S')]_vars

\* a refused unlock attempt: the session is still not authenticated
C17_Witness ==
  /\ event.op = "unlock"
  /\ ~Authed(S)
  /\ WorkflowUnset(S)
  /\ calls = <<>>

\* ------------------------------------------------------------------- C18
\* C18: the target in a research request is the non-empty target the stored
\* plan was generated for, whatever the target input holds at the time of
\* the research run.
C18_ResearchOnPlannedTarget ==
  event.op = "research" =>
    /\ provenance.plan_target # None
    /\ calls[1].contents.target # ""
    /\ calls[1].contents.target = provenance.plan_target[1]

\* ------------------------------------------------------------------- C19
\* C19: when a memo is displayed and the HTML report is offered for
\* download with it, the file offered (the last entry of the artifact list)
\* was made from the stored final_memo.
C19_OfferedHtmlIsOfMemo ==
  HtmlDownloadOffered(S, files) =>
    provenance.html_memo = S.final_memo

\* ------------------------------------------------------------------- C20
\* the run e was a planning run whose call returned a text with no task in it
PlanWithoutTasks(e) ==
  /\ e.op = "plan"
  /\ ~e.outcome.raised
  /\ parse_tasks(extract_text_from_response(Some(e.outcome.result))) = <<>>

\* C20: whenever plan_id is set the stored task list is not empty: a
\* planning call that returns a text with no numbered line records no plan
\* (plan_id and tasks stay as they were) and erases neither research_text
\* nor final_memo.
C20_PlanHasTasks ==
  [][/\ S'.plan_id # None => Truthy(S'.tasks)
     /\ PlanWithoutTasks(event') =>
          /\ S'.plan_id = S.plan_id
          /\ S'.tasks = S.tasks
          /\ S'.research_text = S.research_text
          /\ S'.final_memo = S.final_memo]_vars

====
